---- MODULE Spec2Model ----
(***************************************************************************)
(* A model of sync_folders.py: the one-way periodic synchronisation of a   *)
(* replica directory with a source directory.                              *)
(*                                                                         *)
(* The filesystem is one function from absolute paths (sequences of names) *)
(* to nodes; the source root is <<"src">> and the replica root <<"repl">>. *)
(* The log file lives outside both directories and is modelled as the      *)
(* sequence of the records appended to it; nothing else changes the two    *)
(* trees while the program runs.  One step of the model is one filesystem  *)
(* call that changes the replica, one counted log record, a call of or     *)
(* return from compare_folders, or one statement of the loop of            *)
(* compare_root.                                                           *)
(*                                                                         *)
(* Spec is the program started with --interval and --log_file given, no    *)
(* filesystem call failing.  SpecErr is the same program where a listing,  *)
(* a copy, a delete or a log write may raise OSError.  SpecArgs is the     *)
(* program from its command line, each of the two options given or not.    *)
(***************************************************************************)
EXTENDS Integers, Sequences, FiniteSets, TLC

VARIABLES
    fs,                  \* the filesystem: absolute path -> node
    pc,                  \* where compare_root is: start, running, summary, reset, sleep;
                         \* main before the SyncObject is made, exit when the program is gone
    stack,               \* the active calls of compare_folders, outermost first
    log,                 \* the records appended to the log file so far
    file_created_count,
    file_copied_count,
    file_deleted_count,
    summary,             \* the counts of the last summary line printed
    runs,                \* how many runs have started, counted up to MaxRuns
    runStart,            \* the length of the log when the current run started
    fs0,                 \* the filesystem when the current run started
    calls,               \* the calls of compare_folders in the current run, in order
    error,               \* the exception that ended the program, "none" while it runs
    interval,            \* args.interval: None when --interval is not given
    log_file             \* args.log_file: None when --log_file is not given

vars == <<fs, pc, stack, log, file_created_count, file_copied_count,
          file_deleted_count, summary, runs, runStart, fs0, calls, error,
          interval, log_file>>

(***************************************************************************)
(* Bounds and input sets.                                                  *)
(***************************************************************************)
\* Number of distinct relative paths that exist in the source or the replica.
MaxEntries == 3
\* The run counter stops counting here (the loop itself never stops).
MaxRuns == 2
\* Entry names, in the order sorted() puts them in. ".git" is one of the
\* names dircmp ignores.
NameOrder == <<".git", "a", "b">>
Names == {NameOrder[k] : k \in 1..Len(NameOrder)}
\* The files to draw from, as <<bytes, modification time>>: two of the same
\* size and time with different bytes, and one with the bytes of the first
\* and another time.
FileKinds == {<< <<1>>, 1 >>, << <<2>>, 1 >>, << <<1>>, 2 >>}

src_path == <<"src">>
repl_path == <<"repl">>

\* filecmp.DEFAULT_IGNORES, the names dircmp leaves out of its listings.
DEFAULT_IGNORES == {"RCS", "CVS", "tags", ".git", ".hg", ".bzr", "_darcs", "__pycache__"}

(***************************************************************************)
(* Paths and the filesystem.                                               *)
(***************************************************************************)
DirNode == [kind |-> "dir", content |-> <<>>, mtime |-> 0]
FileNodes == {[kind |-> "file", content |-> k[1], mtime |-> k[2]] : k \in FileKinds}
Nodes == {DirNode} \cup FileNodes

join(p, n) == Append(p, n)
basename(p) == p[Len(p)]
Parent(p) == SubSeq(p, 1, Len(p) - 1)
IsPrefix(p, q) == Len(p) <= Len(q) /\ SubSeq(q, 1, Len(p)) = p
\* q, which lies at or under the path from, moved to the same place under to.
Rebase(q, from, to) == to \o SubSeq(q, Len(from) + 1, Len(q))

isdir(f, p) == p \in DOMAIN f /\ f[p].kind = "dir"
isfile(f, p) == p \in DOMAIN f /\ f[p].kind = "file"
listdir(f, p) == {basename(q) : q \in {x \in DOMAIN f : Len(x) = Len(p) + 1 /\ Parent(x) = p}}

\* The tree under a root, by relative path.
Under(f, root) == {q \in DOMAIN f : IsPrefix(root, q) /\ q # root}
Tree(f, root) == [r \in {Rebase(q, root, <<>>) : q \in Under(f, root)} |-> f[root \o r]]

(***************************************************************************)
(* filecmp.dircmp, as compare_folders uses it (default ignore and hide,    *)
(* shallow comparison).                                                    *)
(***************************************************************************)
Range(s) == {s[k] : k \in 1..Len(s)}
sorted(S) == SelectSeq(NameOrder, LAMBDA n : n \in S)
_filter(flist, skip) == flist \ skip

\* filecmp._sig: (type, size, modification time).
_sig(f, p) == <<f[p].kind, Len(f[p].content), f[p].mtime>>
\* filecmp._do_cmp: the byte-by-byte comparison.
_do_cmp(f, f1, f2) == f[f1].content = f[f2].content
\* A comparison by metadata alone, without the byte-by-byte fallback.
cmp_metadata_only(f, f1, f2) == _sig(f, f1) = _sig(f, f2)
\* filecmp.cmp with shallow=True.
cmp(f, f1, f2) ==
    LET s1 == _sig(f, f1)
        s2 == _sig(f, f2)
    IN  IF s1[1] # "file" \/ s2[1] # "file" THEN FALSE
        ELSE IF s1 = s2 THEN TRUE
        ELSE IF s1[2] # s2[2] THEN FALSE
        ELSE _do_cmp(f, f1, f2)
\* filecmp._cmp, which cmpfiles sorts the common files by: 0 same, 1 different,
\* 2 when a file cannot be read (os.stat raises OSError).
_cmp(f, a, b) ==
    IF a \notin DOMAIN f \/ b \notin DOMAIN f THEN 2
    ELSE IF cmp(f, a, b) THEN 0 ELSE 1

\* dircmp.phase1: what is only in a, and what is only in b.
phase1_left_only_unfiltered(a, b) == a
phase1_left_only(a, b) == a \ b
phase1_right_only_unfiltered(a, b) == b
phase1_right_only(a, b) == b \ a

\* A phase2 that takes a common name for a directory when it is one on the
\* left, whatever it is on the right.
phase2_common_dirs_left(f, left, right, common) == {x \in common : isdir(f, join(left, x))}
\* dircmp.phase2: the common names that are a directory on both sides, and
\* those that are a regular file on both sides; the rest is common_funny.
phase2_common_dirs(f, left, right, common) ==
    {x \in common : isdir(f, join(left, x)) /\ isdir(f, join(right, x))}
phase2_common_files(f, left, right, common) ==
    {x \in common : isfile(f, join(left, x)) /\ isfile(f, join(right, x))}

\* dircmp.phase0, phase1 and phase2: run when compare_folders first reads
\* common_dirs. phase3 has not run yet: same_files and diff_files are empty.
\* left_names and right_names are what os.listdir returned in phase0.
dircmp(f, left, right) ==
    LET left_list == _filter(listdir(f, left), DEFAULT_IGNORES)
        right_list == _filter(listdir(f, right), DEFAULT_IGNORES)
        common == left_list \cap right_list
        common_dirs == phase2_common_dirs(f, left, right, common)
        common_files == phase2_common_files(f, left, right, common)
    IN  [left |-> left, right |-> right,
         left_names |-> listdir(f, left), right_names |-> listdir(f, right),
         left_list |-> sorted(left_list), right_list |-> sorted(right_list),
         common |-> sorted(common),
         left_only |-> sorted(phase1_left_only(left_list, right_list)),
         right_only |-> sorted(phase1_right_only(left_list, right_list)),
         common_dirs |-> sorted(common_dirs),
         common_files |-> sorted(common_files),
         common_funny |-> sorted(common \ (common_dirs \cup common_files)),
         same_files |-> <<>>, diff_files |-> <<>>, funny_files |-> <<>>,
         stage |-> "dirs", i |-> 1, sub |-> "op", kids |-> {}]

\* dircmp.phase3: run when compare_folders first reads diff_files, which is
\* after the recursion, copy_files and delete_files of this level.
phase3(fr, f) ==
    [fr EXCEPT
       !.same_files = SelectSeq(fr.common_files,
                        LAMBDA x : _cmp(f, join(fr.left, x), join(fr.right, x)) = 0),
       !.diff_files = SelectSeq(fr.common_files,
                        LAMBDA x : _cmp(f, join(fr.left, x), join(fr.right, x)) = 1),
       !.funny_files = SelectSeq(fr.common_files,
                        LAMBDA x : _cmp(f, join(fr.left, x), join(fr.right, x)) = 2)]

(***************************************************************************)
(* The position of one call of compare_folders: stage is the if-statement  *)
(* it is in ("dirs", "left", "right", "diff", then "ret"), i the index of  *)
(* the entry the loop of that statement is at, sub and kids the position   *)
(* inside copy_files or delete_files for that entry.                       *)
(***************************************************************************)
\* The entry the frame is at.
CurList(fr) ==
    CASE fr.stage = "dirs" -> fr.common_dirs
      [] fr.stage = "left" -> fr.left_only
      [] fr.stage = "right" -> fr.right_only
      [] fr.stage = "diff" -> fr.diff_files
      [] OTHER -> <<>>
Entry(fr) == CurList(fr)[fr.i]

\* delete_files reaching an entry: a directory is listed first (its children
\* are logged before rmtree), a file is removed first.
delete_begin(fr, f) ==
    LET srcpath == join(fr.right, fr.right_only[fr.i])
    IN  IF isdir(f, srcpath)
        THEN [fr EXCEPT !.kids = listdir(f, srcpath),
                        !.sub = IF listdir(f, srcpath) = {} THEN "rmtree" ELSE "logkids"]
        ELSE [fr EXCEPT !.sub = "op", !.kids = {}]

\* A compare_folders whose if-statement for right_only comes before the one
\* for left_only.
RECURSIVE Settle_deletes_first(_, _)
Settle_deletes_first(fr, f) ==
    CASE fr.stage = "dirs" ->
           IF fr.i <= Len(fr.common_dirs) THEN fr
           ELSE Settle_deletes_first([fr EXCEPT !.stage = "right", !.i = 1], f)
      [] fr.stage = "right" ->
           IF fr.i <= Len(fr.right_only) THEN delete_begin(fr, f)
           ELSE Settle_deletes_first([fr EXCEPT !.stage = "left", !.i = 1], f)
      [] fr.stage = "left" ->
           IF fr.i <= Len(fr.left_only) THEN [fr EXCEPT !.sub = "op", !.kids = {}]
           ELSE Settle_deletes_first([phase3(fr, f) EXCEPT !.stage = "diff", !.i = 1], f)
      [] fr.stage = "diff" ->
           IF fr.i <= Len(fr.diff_files) THEN [fr EXCEPT !.sub = "op", !.kids = {}]
           ELSE [fr EXCEPT !.stage = "ret", !.i = 1, !.sub = "op", !.kids = {}]
      [] OTHER -> fr
\* Control runs on to the next entry there is something to do for: empty
\* lists are skipped by the if-statements of compare_folders.
RECURSIVE Settle(_, _)
Settle(fr, f) ==
    CASE fr.stage = "dirs" ->
           IF fr.i <= Len(fr.common_dirs) THEN fr
           ELSE Settle([fr EXCEPT !.stage = "left", !.i = 1], f)
      [] fr.stage = "left" ->
           IF fr.i <= Len(fr.left_only) THEN [fr EXCEPT !.sub = "op", !.kids = {}]
           ELSE Settle([fr EXCEPT !.stage = "right", !.i = 1], f)
      [] fr.stage = "right" ->
           IF fr.i <= Len(fr.right_only) THEN delete_begin(fr, f)
           ELSE Settle([phase3(fr, f) EXCEPT !.stage = "diff", !.i = 1], f)
      [] fr.stage = "diff" ->
           IF fr.i <= Len(fr.diff_files) THEN [fr EXCEPT !.sub = "op", !.kids = {}]
           ELSE [fr EXCEPT !.stage = "ret", !.i = 1, !.sub = "op", !.kids = {}]
      [] OTHER -> fr

NextEntry(fr, f) == Settle([fr EXCEPT !.i = fr.i + 1], f)

\* compare_folders(src, repl) up to its first piece of work.
compare_folders(f, src, repl) == Settle(dircmp(f, src, repl), f)

(***************************************************************************)
(* shutil and os calls.                                                    *)
(***************************************************************************)
\* A copy2 with its arguments swapped: the file of that name in dest is
\* written over srcpath.
copy2_swapped(f, srcpath, dest) ==
    IF join(dest, basename(srcpath)) \in DOMAIN f
    THEN [f EXCEPT ![srcpath] = f[join(dest, basename(srcpath))]]
    ELSE f
\* shutil.copy2(srcpath, dest): dest is a directory, the file is written
\* there under its own name with the content and times of srcpath.
copy2(f, srcpath, dest) ==
    LET target == join(dest, basename(srcpath))
    IN  [p \in DOMAIN f \cup {target} |-> IF p = target THEN f[srcpath] ELSE f[p]]

\* A copytree that makes the directory and leaves out what is in it.
copytree_mkdir(f, srcpath, dst) == [p \in DOMAIN f \cup {dst} |-> IF p = dst THEN f[srcpath] ELSE f[p]]
\* shutil.copytree(srcpath, dst): dst and everything under srcpath is created.
copytree(f, srcpath, dst) ==
    LET moved == {q \in DOMAIN f : IsPrefix(srcpath, q)}
        made == {Rebase(q, srcpath, dst) : q \in moved}
    IN  [p \in DOMAIN f \cup made |->
           IF p \in made THEN f[Rebase(p, dst, srcpath)] ELSE f[p]]

\* What a file is while copy2 has opened it and has not set its times yet.
Unstamped(content) == [kind |-> "file", content |-> content, mtime |-> 0]
\* The filesystems shutil.copy2 can leave when it raises: nothing written, the
\* file made and empty, or its bytes written and its times not set.
copy2_failed(f, srcpath, dest) ==
    LET target == join(dest, basename(srcpath))
    IN  {f} \cup {[p \in DOMAIN f \cup {target} |-> IF p = target THEN Unstamped(c) ELSE f[p]] :
                    c \in {<<>>, f[srcpath].content}}
\* The filesystems shutil.copytree can leave when it raises: nothing made, or
\* dst made with any part of the tree in it (copytree goes on after an entry
\* that fails and raises at the end).
copytree_failed(f, srcpath, dst) ==
    LET done == copytree(f, srcpath, dst)
        made == DOMAIN done \ DOMAIN f
        parts == {T \in SUBSET made : dst \in T /\ \A q \in T : q = dst \/ Parent(q) \in T}
    IN  {f} \cup {[p \in DOMAIN f \cup T |-> done[p]] : T \in parts}
\* The filesystems shutil.rmtree can leave when it raises: path is still
\* there, with any part of what was in it removed.
rmtree_failed(f, path) ==
    LET inside == {q \in DOMAIN f : IsPrefix(path, q) /\ q # path}
        parts == {T \in SUBSET inside : \A q \in T : \A x \in inside : IsPrefix(q, x) => x \in T}
    IN  {[p \in DOMAIN f \ T |-> f[p]] : T \in parts}

\* os.remove(path)
remove(f, path) == [p \in DOMAIN f \ {path} |-> f[p]]

\* shutil.rmtree(path)
rmtree(f, path) == [p \in {q \in DOMAIN f : ~IsPrefix(path, q)} |-> f[p]]

(***************************************************************************)
(* Initial states: every pair of trees of at most MaxEntries relative      *)
(* paths between them, nothing run yet.                                    *)
(***************************************************************************)
RelPaths == UNION {[1..n -> Names] : n \in 1..MaxEntries}

\* The sets of at most k relative paths that contain the parent of each member.
RECURSIVE DomSets(_)
DomSets(k) ==
    IF k = 0 THEN {{}}
    ELSE LET prev == DomSets(k - 1)
             Ext(D) == {q \in RelPaths : q \notin D /\ (Len(q) = 1 \/ Parent(q) \in D)}
         IN  prev \cup UNION {{D \cup {q} : q \in Ext(D)} : D \in prev}

\* The trees with these paths: whatever has children is a directory.
TreesOn(D) ==
    {t \in [D -> Nodes] : \A q \in D : Len(q) > 1 => t[Parent(q)].kind = "dir"}

\* The filesystem with tree ts at the source root and tr at the replica root.
Mount(ts, tr) ==
    [p \in {src_path, repl_path} \cup {src_path \o q : q \in DOMAIN ts}
                                 \cup {repl_path \o q : q \in DOMAIN tr} |->
       IF p \in {src_path, repl_path} THEN DirNode
       ELSE IF p[1] = "src" THEN ts[Rebase(p, src_path, <<>>)]
       ELSE tr[Rebase(p, repl_path, <<>>)]]

\* What argparse gives for an option that is not on the command line, and
\* the values of --interval and --log_file when they are.
None == "None"
Intervals == {"1"}
LogFiles == {"log.txt"}

\* Two existing directories, nothing run or logged yet.
Fresh ==
    /\ \E Ds \in DomSets(MaxEntries), Dr \in DomSets(MaxEntries) :
         /\ Cardinality(Ds \cup Dr) <= MaxEntries
         /\ \E ts \in TreesOn(Ds), tr \in TreesOn(Dr) : fs = Mount(ts, tr)
    /\ stack = <<>>
    /\ log = <<>>
    /\ file_created_count = 0
    /\ file_copied_count = 0
    /\ file_deleted_count = 0
    /\ summary = <<>>
    /\ runs = 0
    /\ runStart = 0
    /\ fs0 = fs
    /\ calls = <<>>
    /\ error = "none"

\* The program started with --interval and --log_file, the SyncObject made.
Init ==
    /\ Fresh
    /\ pc = "start"
    /\ interval \in Intervals
    /\ log_file \in LogFiles

(***************************************************************************)
(* write_log and the counters.                                             *)
(***************************************************************************)
\* A write_log that is handed the path in the replica for every record.
write_log_replica_path(lg, type, file) ==
    IF type \in {"create", "copy", "delete"}
    THEN Append(lg, [type |-> type, file |-> Rebase(file, src_path, repl_path)])
    ELSE lg
\* write_log(type, file): one line appended to the log file.
write_log(lg, type, file) ==
    IF type \in {"create", "copy", "delete"}
    THEN Append(lg, [type |-> type, file |-> file])
    ELSE lg

\* Counters that take every record of copy_files for a creation.
Counted_new_ignored(count, type, counter) ==
    IF (counter = "create" /\ type \in {"create", "copy"}) \/ (counter = "delete" /\ type = "delete")
    THEN count + 1 ELSE count
\* The counter statement that precedes each call of write_log.
Counted(count, type, counter) == IF type = counter THEN count + 1 ELSE count

\* file_..._count += 1 and write_log(type, file), as copy_files and
\* delete_files pair them.
Report(type, file) ==
    /\ file_created_count' = Counted(file_created_count, type, "create")
    /\ file_copied_count' = Counted(file_copied_count, type, "copy")
    /\ file_deleted_count' = Counted(file_deleted_count, type, "delete")
    /\ log' = write_log(log, type, file)

top == stack[Len(stack)]
SetTop(fr) == [stack EXCEPT ![Len(stack)] = fr]
InCall == pc = "running" /\ stack # <<>>

\* copy_files called for diff_files without new=False.
ActionType_new_default(fr) == IF fr.stage \in {"left", "diff"} THEN "create" ELSE "delete"
\* What copy_files and delete_files log for the stage of compare_folders
\* that called them: copy_files(left_only) has new=True, copy_files(diff_files)
\* new=False.
ActionType(fr) ==
    CASE fr.stage = "left" -> "create"
      [] fr.stage = "diff" -> "copy"
      [] OTHER -> "delete"

\* srcpath of copy_files (under src) and of delete_files (under the replica).
SrcPathOf(fr) ==
    IF fr.stage = "right" THEN join(fr.right, Entry(fr)) ELSE join(fr.left, Entry(fr))

\* A compare_root that catches the exception of a run and goes on to print
\* the summary.
Raise_caught(exc) ==
    /\ error' = exc
    /\ pc' = "summary"
    /\ stack' = <<>>
\* An exception is raised: no try statement is anywhere in the program, so
\* every call of compare_folders and compare_root is left and the program
\* exits with the traceback.
Raise(exc) ==
    /\ error' = exc
    /\ pc' = "exit"
    /\ stack' = <<>>

(***************************************************************************)
(* compare_root                                                            *)
(***************************************************************************)
\* print("Syncing ..."), then the call of compare_folders on the two roots.
StartRun ==
    /\ pc = "start"
    /\ pc' = "running"
    /\ stack' = <<compare_folders(fs, src_path, repl_path)>>
    /\ runs' = IF runs < MaxRuns THEN runs + 1 ELSE runs
    /\ runStart' = Len(log)
    /\ fs0' = fs
    /\ calls' = <<<<src_path, repl_path>>>>
    /\ UNCHANGED <<fs, log, file_created_count, file_copied_count,
                   file_deleted_count, summary>>
    /\ UNCHANGED <<error, interval, log_file>>

\* print("Files created: ...")
PrintSummary ==
    /\ pc = "summary"
    /\ summary' = <<file_created_count, file_copied_count, file_deleted_count>>
    /\ pc' = "reset"
    /\ UNCHANGED <<fs, stack, log, file_created_count, file_copied_count,
                   file_deleted_count, runs, runStart, fs0>>
    /\ UNCHANGED <<calls, error, interval, log_file>>

\* A loop that goes to sleep without clearing the counters.
ResetCounters_skipped ==
    /\ pc = "reset"
    /\ pc' = "sleep"
    /\ UNCHANGED <<fs, stack, log, file_created_count, file_copied_count,
                   file_deleted_count, summary, runs, runStart, fs0>>
    /\ UNCHANGED <<calls, error, interval, log_file>>
\* The three counters are cleared after printing.
ResetCounters ==
    /\ pc = "reset"
    /\ file_created_count' = 0
    /\ file_copied_count' = 0
    /\ file_deleted_count' = 0
    /\ pc' = "sleep"
    /\ UNCHANGED <<fs, stack, log, summary, runs, runStart, fs0>>
    /\ UNCHANGED <<calls, error, interval, log_file>>

\* time.sleep(self.interval), and the loop starts over.
Sleep ==
    /\ pc = "sleep"
    /\ interval # None
    /\ pc' = "start"
    /\ UNCHANGED <<fs, stack, log, file_created_count, file_copied_count,
                   file_deleted_count, summary, runs, runStart, fs0>>
    /\ UNCHANGED <<calls, error, interval, log_file>>

(***************************************************************************)
(* compare_folders                                                         *)
(***************************************************************************)
\* A recursive call with src and repl themselves, the name not joined on.
CompareSubfolder_same_pair ==
    /\ InCall
    /\ top.stage = "dirs"
    /\ stack' = Append(stack, compare_folders(fs, top.left, top.right))
    /\ calls' = Append(calls, <<top.left, top.right>>)
    /\ UNCHANGED <<fs, pc, log, file_created_count, file_copied_count,
                   file_deleted_count, summary, runs, runStart, fs0>>
    /\ UNCHANGED <<error, interval, log_file>>
\* The recursive call for the next common subdirectory.
CompareSubfolder ==
    /\ InCall
    /\ top.stage = "dirs"
    /\ stack' = Append(stack, compare_folders(fs, join(top.left, Entry(top)),
                                              join(top.right, Entry(top))))
    /\ calls' = Append(calls, <<join(top.left, Entry(top)), join(top.right, Entry(top))>>)
    /\ UNCHANGED <<fs, pc, log, file_created_count, file_copied_count,
                   file_deleted_count, summary, runs, runStart, fs0>>
    /\ UNCHANGED <<error, interval, log_file>>

\* compare_folders returns: to the loop over common_dirs of its caller, or to
\* compare_root.
Return ==
    /\ InCall
    /\ top.stage = "ret"
    /\ IF Len(stack) = 1
       THEN /\ stack' = <<>>
            /\ pc' = "summary"
       ELSE /\ stack' = [SubSeq(stack, 1, Len(stack) - 1) EXCEPT
                           ![Len(stack) - 1] = NextEntry(stack[Len(stack) - 1], fs)]
            /\ pc' = pc
    /\ UNCHANGED <<fs, log, file_created_count, file_copied_count,
                   file_deleted_count, summary, runs, runStart, fs0>>
    /\ UNCHANGED <<calls, error, interval, log_file>>

(***************************************************************************)
(* copy_files                                                              *)
(***************************************************************************)
\* The entry is a directory: shutil.copytree, then os.listdir(srcpath).
CopyTree ==
    /\ InCall
    /\ top.stage \in {"left", "diff"}
    /\ top.sub = "op"
    /\ isdir(fs, SrcPathOf(top))
    /\ fs' = copytree(fs, SrcPathOf(top), join(top.right, basename(SrcPathOf(top))))
    /\ stack' = SetTop(IF listdir(fs', SrcPathOf(top)) = {}
                       THEN NextEntry(top, fs')
                       ELSE [top EXCEPT !.sub = "logkids",
                                        !.kids = listdir(fs', SrcPathOf(top))])
    /\ UNCHANGED <<pc, log, file_created_count, file_copied_count,
                   file_deleted_count, summary, runs, runStart, fs0>>
    /\ UNCHANGED <<calls, error, interval, log_file>>

\* The entry is a file: shutil.copy2(srcpath, dest).
CopyFile ==
    /\ InCall
    /\ top.stage \in {"left", "diff"}
    /\ top.sub = "op"
    /\ ~isdir(fs, SrcPathOf(top))
    /\ fs' = copy2(fs, SrcPathOf(top), top.right)
    /\ stack' = SetTop([top EXCEPT !.sub = "logself"])
    /\ UNCHANGED <<pc, log, file_created_count, file_copied_count,
                   file_deleted_count, summary, runs, runStart, fs0>>
    /\ UNCHANGED <<calls, error, interval, log_file>>

(***************************************************************************)
(* delete_files                                                            *)
(***************************************************************************)
\* The entry is a file: os.remove(srcpath).
Remove ==
    /\ InCall
    /\ top.stage = "right"
    /\ top.sub = "op"
    /\ fs' = remove(fs, SrcPathOf(top))
    /\ stack' = SetTop([top EXCEPT !.sub = "logself"])
    /\ UNCHANGED <<pc, log, file_created_count, file_copied_count,
                   file_deleted_count, summary, runs, runStart, fs0>>
    /\ UNCHANGED <<calls, error, interval, log_file>>

\* The entry is a directory whose children are logged: shutil.rmtree(srcpath).
RmTree ==
    /\ InCall
    /\ top.stage = "right"
    /\ top.sub = "rmtree"
    /\ fs' = rmtree(fs, SrcPathOf(top))
    /\ stack' = SetTop(NextEntry(top, fs'))
    /\ UNCHANGED <<pc, log, file_created_count, file_copied_count,
                   file_deleted_count, summary, runs, runStart, fs0>>
    /\ UNCHANGED <<calls, error, interval, log_file>>

(***************************************************************************)
(* The counted log records of copy_files and delete_files.                 *)
(***************************************************************************)
\* The record of a file entry, after copy2 or os.remove.
LogEntry ==
    /\ InCall
    /\ top.sub = "logself"
    /\ Report(ActionType(top), SrcPathOf(top))
    /\ stack' = SetTop(NextEntry(top, fs))
    /\ UNCHANGED <<fs, pc, summary, runs, runStart, fs0>>
    /\ UNCHANGED <<calls, error, interval, log_file>>

\* The record of one child of a directory entry: one turn of the loop over
\* os.listdir(srcpath), which lists in no particular order.
LogChild ==
    /\ InCall
    /\ top.sub = "logkids"
    /\ \E file \in top.kids :
         /\ Report(ActionType(top), join(SrcPathOf(top), file))
         /\ stack' = SetTop(IF top.kids # {file}
                            THEN [top EXCEPT !.kids = top.kids \ {file}]
                            ELSE IF top.stage = "right"
                            THEN [top EXCEPT !.kids = {}, !.sub = "rmtree"]
                            ELSE NextEntry(top, fs))
    /\ UNCHANGED <<fs, pc, summary, runs, runStart, fs0>>
    /\ UNCHANGED <<calls, error, interval, log_file>>

(***************************************************************************)
(* Filesystem calls that fail.                                             *)
(***************************************************************************)
\* os.listdir raises in dircmp: compare_folders fails as soon as it is
\* called, on the roots or on a common subdirectory.
compare_folders_OSError ==
    /\ pc = "start" \/ (InCall /\ top.stage = "dirs")
    /\ Raise("OSError")
    /\ IF pc = "start"
       THEN /\ runs' = IF runs < MaxRuns THEN runs + 1 ELSE runs
            /\ runStart' = Len(log)
            /\ fs0' = fs
            /\ calls' = <<<<src_path, repl_path>>>>
       ELSE /\ calls' = Append(calls, <<join(top.left, Entry(top)), join(top.right, Entry(top))>>)
            /\ UNCHANGED <<runs, runStart, fs0>>
    /\ UNCHANGED <<fs, log, file_created_count, file_copied_count,
                   file_deleted_count, summary, interval, log_file>>

\* shutil.copytree or shutil.copy2 raises in copy_files.
copy_files_OSError ==
    /\ InCall
    /\ top.stage \in {"left", "diff"}
    /\ top.sub = "op"
    /\ fs' \in IF isdir(fs, SrcPathOf(top))
               THEN copytree_failed(fs, SrcPathOf(top), join(top.right, basename(SrcPathOf(top))))
               ELSE copy2_failed(fs, SrcPathOf(top), top.right)
    /\ Raise("OSError")
    /\ UNCHANGED <<log, file_created_count, file_copied_count, file_deleted_count,
                   summary, runs, runStart, fs0, calls, interval, log_file>>

\* os.remove or shutil.rmtree raises in delete_files.
delete_files_OSError ==
    /\ InCall
    /\ top.stage = "right"
    /\ top.sub \in {"op", "rmtree"}
    /\ fs' \in IF top.sub = "rmtree" THEN rmtree_failed(fs, SrcPathOf(top)) ELSE {fs}
    /\ Raise("OSError")
    /\ UNCHANGED <<log, file_created_count, file_copied_count, file_deleted_count,
                   summary, runs, runStart, fs0, calls, interval, log_file>>

\* open or write raises in write_log: the counter statement before the call
\* has run, the record is not written.
write_log_OSError ==
    /\ InCall
    /\ top.sub \in {"logself", "logkids"}
    /\ file_created_count' = Counted(file_created_count, ActionType(top), "create")
    /\ file_copied_count' = Counted(file_copied_count, ActionType(top), "copy")
    /\ file_deleted_count' = Counted(file_deleted_count, ActionType(top), "delete")
    /\ Raise("OSError")
    /\ UNCHANGED <<fs, log, summary, runs, runStart, fs0, calls, interval, log_file>>

(***************************************************************************)
(* parse_arguments: the program from its start, --interval and --log_file  *)
(* each given or not.                                                      *)
(***************************************************************************)
InitArgs ==
    /\ Fresh
    /\ pc = "main"
    /\ interval \in Intervals \cup {None}
    /\ log_file \in LogFiles \cup {None}

\* SyncObject.__init__ with a log file path: the counters are set to zero,
\* and __main__ calls compare_root.
SyncObject_init ==
    /\ pc = "main"
    /\ log_file # None
    /\ file_created_count' = 0
    /\ file_copied_count' = 0
    /\ file_deleted_count' = 0
    /\ pc' = "start"
    /\ UNCHANGED <<fs, stack, log, summary, runs, runStart, fs0>>
    /\ UNCHANGED <<calls, error, interval, log_file>>

\* SyncObject.__init__ without one: os.path.abspath(None) raises TypeError.
abspath_TypeError ==
    /\ pc = "main"
    /\ log_file = None
    /\ Raise("TypeError")
    /\ UNCHANGED <<fs, log, file_created_count, file_copied_count, file_deleted_count,
                   summary, runs, runStart, fs0, calls, interval, log_file>>

\* time.sleep(self.interval) without an interval: time.sleep(None) raises
\* TypeError.
sleep_TypeError ==
    /\ pc = "sleep"
    /\ interval = None
    /\ Raise("TypeError")
    /\ UNCHANGED <<fs, log, file_created_count, file_copied_count, file_deleted_count,
                   summary, runs, runStart, fs0, calls, interval, log_file>>

Next ==
    \/ StartRun
    \/ CompareSubfolder
    \/ CopyTree
    \/ CopyFile
    \/ Remove
    \/ RmTree
    \/ LogEntry
    \/ LogChild
    \/ Return
    \/ PrintSummary
    \/ ResetCounters
    \/ Sleep

Spec == Init /\ [][Next]_vars

\* The program where a filesystem call may fail.
NextErr ==
    \/ Next
    \/ compare_folders_OSError
    \/ copy_files_OSError
    \/ delete_files_OSError
    \/ write_log_OSError

SpecErr == Init /\ [][NextErr]_vars

\* The program from its command line.
NextArgs ==
    \/ Next
    \/ SyncObject_init
    \/ abspath_TypeError
    \/ sleep_TypeError

SpecArgs == InitArgs /\ [][NextArgs]_vars

(***************************************************************************)
(* Properties.                                                             *)
(***************************************************************************)
SrcTree(f) == Tree(f, src_path)
ReplTree(f) == Tree(f, repl_path)
\* The records written since the current run started, and how many of a type.
RunRecords == {k \in (runStart + 1)..Len(log) : TRUE}
NumRecords(type) == Cardinality({k \in RunRecords : log[k].type = type})
\* The calls of compare_folders whose phase3 has run.
Compared == {k \in 1..Len(stack) : stack[k].stage \in {"diff", "ret"}}

\* The replica's names, types and file contents equal the source's at every depth.
Mirrored(f) ==
    /\ DOMAIN SrcTree(f) = DOMAIN ReplTree(f)
    /\ \A p \in DOMAIN SrcTree(f) :
         /\ SrcTree(f)[p].kind = ReplTree(f)[p].kind
         /\ SrcTree(f)[p].content = ReplTree(f)[p].content

\* C1 (mirror convergence): when a run of compare_folders on the roots has
\* returned, every name of the source exists in the replica with the same
\* type and content, and the replica has no name the source lacks, at every
\* depth.
C1_MirrorConvergence == pc = "summary" => Mirrored(fs)

\* C2 (idempotence): from the second run on, a run changes nothing in the
\* filesystem and writes no log record, the three counters stay zero and the
\* summary it prints is zero, zero, zero.
C2_Idempotence ==
    /\ [][runs >= 2 => (fs' = fs /\ log' = log)]_vars
    /\ [](runs >= 2 => /\ file_created_count = 0
                       /\ file_copied_count = 0
                       /\ file_deleted_count = 0
                       /\ (pc \in {"reset", "sleep"} => summary = <<0, 0, 0>>))
\* A second run has ended after a first run that created, copied or deleted.
C2_Witness == runs = 2 /\ pc = "reset" /\ Len(log) >= 2 /\ summary = <<0, 0, 0>>

\* The four sets compare_folders acts on, and the entry names of both directories.
FourSets(fr) ==
    <<Range(fr.common_dirs), Range(fr.left_only), Range(fr.right_only), Range(fr.diff_files)>>
EntryNames(fr) == fr.left_names \cup fr.right_names
\* The other names: identical files, names of mismatched type, files that
\* could not be compared, names dircmp ignores.
RestSets(fr) ==
    <<Range(fr.same_files), Range(fr.common_funny), Range(fr.funny_files),
      EntryNames(fr) \cap DEFAULT_IGNORES>>
Disjoint(sets) ==
    \A m, n \in 1..Len(sets) : m < n => sets[m] \cap sets[n] = {}

\* C3 as claimed (partition): for every directory pair compared, the four
\* sets (common_dirs, left_only, right_only, diff_files) are pairwise
\* disjoint and their union is the union of the entry names of both
\* directories.
C3_PartitionClaimed ==
    \A k \in Compared :
        /\ Disjoint(FourSets(stack[k]))
        /\ UNION Range(FourSets(stack[k])) = EntryNames(stack[k])
\* C3 as amended (partition): for every directory pair compared, the four
\* sets are pairwise disjoint, and together with the identical files, the
\* names of mismatched type, the files that could not be compared and the
\* ignored names, from all of which they are disjoint, they make up the
\* entry names of both directories.
C3_Partition ==
    \A k \in Compared :
        /\ Disjoint(FourSets(stack[k]) \o RestSets(stack[k]))
        /\ UNION Range(FourSets(stack[k]) \o RestSets(stack[k])) = EntryNames(stack[k])
\* A pair compared with a differing file, an identical file and an ignored name.
C3_Witness ==
    \E k \in Compared :
        /\ stack[k].diff_files # <<>>
        /\ stack[k].same_files # <<>>
        /\ EntryNames(stack[k]) \cap DEFAULT_IGNORES # {}

\* C4 (deletion containment): whatever a step removes from the filesystem
\* lies at or under the replica-only entry delete_files is at, the name of
\* that entry was not in the source directory when the pair was classified,
\* and the relative path of what is removed does not exist in the source.
C4_DeletionContainment ==
    [][\A p \in DOMAIN fs \ DOMAIN fs' :
          /\ InCall
          /\ top.stage = "right"
          /\ IsPrefix(join(top.right, Entry(top)), p)
          /\ Entry(top) \notin top.left_names
          /\ Rebase(p, repl_path, src_path) \notin DOMAIN fs]_vars
\* A replica-only directory was removed with what was in it, the source not
\* being empty.
C4_Witness ==
    /\ \E k \in RunRecords :
          /\ log[k].type = "delete"
          /\ Len(log[k].file) > 2
          /\ log[k].file \notin DOMAIN fs
          /\ log[k].file \in DOMAIN fs0
    /\ DOMAIN SrcTree(fs) # {}

FilesUnder(f, p) == {q \in DOMAIN f : IsPrefix(p, q) /\ q # p /\ f[q].kind = "file"}
RecordsAt(type, q) == {k \in RunRecords : log[k].type = type /\ log[k].file = q}
RecordsUnder(type, p) ==
    {k \in RunRecords : log[k].type = type /\ IsPrefix(p, log[k].file)}
OnePerFile(type, p, files) ==
    /\ \A q \in files : Cardinality(RecordsAt(type, q)) = 1
    /\ \A k \in RecordsUnder(type, p) : log[k].file \in files
\* The entries of left_only that copy_files is done with.
DoneLeft(fr) ==
    CASE fr.stage = "dirs" -> {}
      [] fr.stage = "left" -> 1..(fr.i - 1)
      [] OTHER -> 1..Len(fr.left_only)

\* C6 (create granularity): once copy_files is done with a source-only
\* entry that is a directory, the log has exactly one "create" record for
\* each file anywhere inside that directory, and no "create" record for the
\* directory or a directory inside it.
C6_CreateGranularity ==
    \A k \in 1..Len(stack) : \A j \in DoneLeft(stack[k]) :
        isdir(fs, join(stack[k].left, stack[k].left_only[j])) =>
            OnePerFile("create", join(stack[k].left, stack[k].left_only[j]),
                       FilesUnder(fs, join(stack[k].left, stack[k].left_only[j])))

\* C7 (delete granularity): when delete_files comes to remove a replica-only
\* directory, the directory and all in it still being there, the log has
\* exactly one "delete" record for each file anywhere inside it, and no
\* "delete" record for the directory or a directory inside it.
C7_DeleteGranularity ==
    (InCall /\ top.stage = "right" /\ top.sub = "rmtree") =>
        /\ FilesUnder(fs, SrcPathOf(top)) = FilesUnder(fs0, SrcPathOf(top))
        /\ OnePerFile("delete", SrcPathOf(top), FilesUnder(fs, SrcPathOf(top)))

\* The relative paths that are a file on both sides with different content,
\* and those of them the run can find: the two files differ in modification
\* time or size too, and no name on the path is one dircmp ignores.
Differing(f) ==
    {p \in DOMAIN SrcTree(f) \cap DOMAIN ReplTree(f) :
        /\ SrcTree(f)[p].kind = "file"
        /\ ReplTree(f)[p].kind = "file"
        /\ SrcTree(f)[p].content # ReplTree(f)[p].content}
Detectable(f) ==
    {p \in Differing(f) :
        /\ _sig(f, src_path \o p) # _sig(f, repl_path \o p)
        /\ \A k \in 1..Len(p) : p[k] \notin DEFAULT_IGNORES}
\* The run has made the replica's file p equal to the source's and logged
\* one "copy" record for it, and no "create" or "delete" record.
Overwritten(p) ==
    /\ isfile(fs, repl_path \o p)
    /\ fs[repl_path \o p].content = fs[src_path \o p].content
    /\ Cardinality(RecordsAt("copy", src_path \o p)) = 1
    /\ \A k \in RunRecords :
          log[k].file \in {src_path \o p, repl_path \o p} => log[k].type = "copy"

C9_NoFalsePositives ==
    \A k \in 1..Len(stack) :
        (stack[k].stage = "diff" /\ stack[k].sub = "op") =>
            \A j \in (stack[k].i)..Len(stack[k].diff_files) :
                fs[join(stack[k].left, stack[k].diff_files[j])].content
                    # fs[join(stack[k].right, stack[k].diff_files[j])].content
\* compare_folders is about to overwrite a differing file, having found
\* another file identical whose modification time differs from its source's.
C9_Witness ==
    /\ InCall
    /\ top.stage = "diff"
    /\ top.sub = "op"
    /\ \E x \in Range(top.same_files) :
          fs[join(top.left, x)].mtime # fs[join(top.right, x)].mtime

C11_CounterReset ==
    (pc = "start" \/ (pc = "running" /\ Len(log) = runStart)) =>
        /\ file_created_count = 0
        /\ file_copied_count = 0
        /\ file_deleted_count = 0
\* A run that counted a creation and a deletion is over and the next run is
\* about to start.
C11_Witness == pc = "start" /\ runs >= 1 /\ summary[1] >= 1 /\ summary[3] >= 1

\* What the current run has changed so far: the paths made, removed or
\* rewritten since it started.
Applied(f) ==
    {p \in DOMAIN f \cup DOMAIN fs0 : p \notin DOMAIN f \/ p \notin DOMAIN fs0 \/ f[p] # fs0[p]}

\* C12 (fatal error propagation): once a filesystem call has failed the
\* program takes no further step, so no filesystem action, log record,
\* summary or further run follows; and the step that fails writes no record,
\* prints no summary and leaves everything the run has changed as it is.
C12_FatalError ==
    [][/\ error = "none"
       /\ error' # "none" =>
            /\ log' = log
            /\ summary' = summary
            /\ \A p \in Applied(fs) :
                  /\ p \in DOMAIN fs <=> p \in DOMAIN fs'
                  /\ p \in DOMAIN fs => fs'[p] = fs[p]]_vars
\* A call has failed in a run that had changed the replica and written
\* records, and the program is gone.
C12_Witness ==
    /\ error = "OSError"
    /\ pc = "exit"
    /\ Applied(fs) # {}
    /\ Len(log) > runStart

\* The replica path of the entry copy_files or delete_files is at, if any:
\* the action in progress.
InProgress ==
    IF InCall /\ top.stage \in {"left", "right", "diff"}
    THEN {join(top.right, Entry(top))}
    ELSE {}
Excused(p) == \E e \in InProgress : IsPrefix(e, p)
\* The change a record describes has been made in the replica.
RecordApplied(r) ==
    IF r.type = "delete"
    THEN r.file \notin DOMAIN fs
    ELSE /\ Rebase(r.file, src_path, repl_path) \in DOMAIN fs
         /\ fs[Rebase(r.file, src_path, repl_path)].kind = fs[r.file].kind
         /\ fs[Rebase(r.file, src_path, repl_path)].content = fs[r.file].content
\* The file p of the replica, made, rewritten or removed in this run, has its
\* record.
ChangeRecorded(p) ==
    IF p \in DOMAIN fs
    THEN \E k \in RunRecords :
            log[k].type \in {"create", "copy"} /\ log[k].file = Rebase(p, repl_path, src_path)
    ELSE \E k \in RunRecords : log[k].type = "delete" /\ log[k].file = p
IsFileChange(p) ==
    IF p \in DOMAIN fs THEN fs[p].kind = "file" ELSE fs0[p].kind = "file"

\* C13 (log consistency under crash): at every point of a run, every record
\* of the run describes a change that has been made in the replica, and
\* every file the run has made, rewritten or removed has its record; the
\* entry copy_files or delete_files is at, with what is in it, is excepted
\* as the action in progress.
C13_LogConsistency ==
    /\ \A k \in RunRecords :
          Excused(IF log[k].type = "delete" THEN log[k].file
                  ELSE Rebase(log[k].file, src_path, repl_path))
              \/ RecordApplied(log[k])
    /\ \A p \in Applied(fs) : (IsFileChange(p) /\ ~Excused(p)) => ChangeRecorded(p)

\* C14 (runs indefinitely with optional settings): started with two existing
\* directories, with --interval given or not and --log_file given or not,
\* and no filesystem call failing, the program never stops: the SyncObject
\* is made, and every run that completes is followed by another.
C14_RunsIndefinitely == pc # "exit"

\* The relative paths that are a directory in both trees, the roots included.
CommonDirPaths(f) ==
    {p \in {<<>>} \cup (DOMAIN SrcTree(f) \cap DOMAIN ReplTree(f)) :
        isdir(f, src_path \o p) /\ isdir(f, repl_path \o p)}
CallsOf(p) == {k \in 1..Len(calls) : calls[k] = <<src_path \o p, repl_path \o p>>}

\* C15 (traversal completeness without duplication): when a run has
\* returned, compare_folders has been called exactly once for every relative
\* path that was a directory in both trees when the run started (which is
\* what it is when its parent is classified), and for no other pair.
C15_TraversalComplete ==
    pc = "summary" =>
        /\ \A p \in CommonDirPaths(fs0) : Cardinality(CallsOf(p)) = 1
        /\ \A k \in 1..Len(calls) : \E p \in CommonDirPaths(fs0) : k \in CallsOf(p)

\* The paths that differ between two filesystems, the topmost of them, and
\* what has happened to such a path from f to g.
Changed(f, g) ==
    {p \in DOMAIN f \cup DOMAIN g : p \notin DOMAIN f \/ p \notin DOMAIN g \/ f[p] # g[p]}
TopChanged(f, g) == {q \in Changed(f, g) : Parent(q) \notin Changed(f, g)}
KindOf(q, f, g) ==
    IF q \notin DOMAIN f THEN "create"
    ELSE IF q \notin DOMAIN g THEN "delete" ELSE "copy"
\* The run has created, deleted or overwritten (one of kinds) an entry of
\* the directory D.
DoneAt(D, kinds) ==
    \E q \in TopChanged(fs0, fs) : Parent(q) = D /\ KindOf(q, fs0, fs) \in kinds
\* The directories above D, from the replica root down.
Above(D) == {SubSeq(D, 1, n) : n \in 1..(Len(D) - 1)}
AnyKind == {"create", "delete", "copy"}

\* C16 (per-level action order): a step that creates an entry of a directory
\* finds no entry of that directory deleted or overwritten in this run, a
\* step that deletes one finds none overwritten, and a step that changes
\* anything in a directory, or calls compare_folders for it, finds nothing
\* created, deleted or overwritten yet in any directory above it: the common
\* subdirectories are done, with all below them, before the creates of a
\* level, the creates before its deletes, the deletes before its overwrites.
C16_ActionOrder ==
    [][/\ \A q \in TopChanged(fs, fs') :
             /\ KindOf(q, fs, fs') = "create" => ~DoneAt(Parent(q), {"delete", "copy"})
             /\ KindOf(q, fs, fs') = "delete" => ~DoneAt(Parent(q), {"copy"})
             /\ \A A \in Above(Parent(q)) : ~DoneAt(A, AnyKind)
       /\ (pc = "running" /\ Len(calls') > Len(calls)) =>
             \A A \in Above(calls'[Len(calls')][2]) : ~DoneAt(A, AnyKind)]_vars
\* A run has returned that created one entry and deleted another in the
\* same directory.
C16_Witness ==
    /\ pc = "summary"
    /\ \E D \in DOMAIN fs :
          /\ DoneAt(D, {"create"})
          /\ DoneAt(D, {"delete"})

\* How far the current run has come: the calls of compare_folders made and
\* those returned from, the records written and the entries created,
\* deleted or overwritten.
Progress ==
    Len(calls) + (Len(calls) - Len(stack)) + (Len(log) - runStart)
        + Cardinality(TopChanged(fs0, fs))

\* C17 (run termination): every step of a run takes it further, a run never
\* comes further than twice the number of paths the two trees had when it
\* started, and it always has a next step: so the call of compare_folders on
\* the roots returns, with every recursive call it makes; and from there
\* compare_root goes through the summary to the sleep step.
C17_RunTermination ==
    /\ [](pc \in {"running", "summary", "reset"} => ENABLED Next)
    /\ [](pc = "running" => Progress <= 2 * Cardinality(DOMAIN fs0))
    /\ [][(pc = "running" /\ pc' = "running") => Progress' > Progress]_vars
    /\ [][/\ pc = "summary" => pc' = "reset"
          /\ pc = "reset" => pc' = "sleep"]_vars
\* A run has returned from a recursive call and gone on to create, delete or
\* overwrite, and is at the sleep step.
C17_Witness ==
    /\ pc = "sleep"
    /\ Len(calls) >= 2
    /\ Len(log) > runStart

\* The relative paths that are a file in one tree and a directory in the other.
Mismatch(f) ==
    {p \in DOMAIN SrcTree(f) \cap DOMAIN ReplTree(f) : SrcTree(f)[p].kind # ReplTree(f)[p].kind}
\* Nothing at or under the absolute path root differs between f and g.
SameUnder(f, g, root) == \A q \in Changed(f, g) : ~IsPrefix(root, q)
At(p, q) == IsPrefix(src_path \o p, q) \/ IsPrefix(repl_path \o p, q)

C19_LoggedPathSide ==
    \A k \in 1..Len(log) :
        IF log[k].type \in {"create", "copy"}
        THEN /\ log[k].file \in Under(fs, src_path)
             /\ ~IsPrefix(repl_path, log[k].file)
        ELSE /\ log[k].type = "delete"
             /\ IsPrefix(repl_path, log[k].file)
             /\ log[k].file # repl_path
             /\ k \in RunRecords => log[k].file \in Under(fs0, repl_path)
\* A run has returned that wrote a "delete" record and a "create" or "copy"
\* record, one of its records for a child of a directory entry.
C19_Witness ==
    /\ pc = "summary"
    /\ \E k \in RunRecords : log[k].type = "delete"
    /\ \E k \in RunRecords : log[k].type \in {"create", "copy"}
    /\ \E k \in RunRecords : Len(log[k].file) > 2

====
